---------------------------- MODULE Spec2Model ----------------------------
(***************************************************************************)
(* rust-minicat: main (src/main.rs) calls get_args and then run            *)
(* (src/lib.rs).  The state is the command line, the Config built from it, *)
(* the position of run inside its two nested loops, the two counters of    *)
(* the per-line loop, and the two output streams.                          *)
(*                                                                         *)
(* Environment.  The file system and standard input are the program's      *)
(* inputs: what File::open answers and what each read of the open reader   *)
(* yields are drawn when the program asks.  `input` records, per source,   *)
(* what the environment has delivered so far; it is the content of the     *)
(* source as the program saw it.  A line is what BufRead::lines yields:    *)
(* the text between terminators, terminator stripped.  A line that is not  *)
(* valid UTF-8 makes read_line return Err after consuming the line, so the *)
(* iterator goes on with the next line; it is recorded as Undecodable.     *)
(* A reader every read of which fails without consuming anything (a        *)
(* directory: File::open succeeds, read returns EISDIR) is "unreadable".   *)
(* Standard output is taken to be writable (println! panics otherwise).    *)
(***************************************************************************)
EXTENDS Integers, Sequences, FiniteSets, TLC

VARIABLES args, pc, config, idx, reader, number, blank_count,
          stdout, stderr, input, result, exitCode

vars == <<args, pc, config, idx, reader, number, blank_count,
          stdout, stderr, input, result, exitCode>>

(* ------------------------------ bounds --------------------------------- *)

\* at most this many file tokens on the command line
MaxFiles == 2

\* at most this many lines are read over the whole run
MaxInput == 3

\* usize arithmetic of the enumerate counter is modulo this (2^64 in the
\* build, shrunk; always larger than MaxInput + 1 so that no printed number
\* wraps)
UsizeMod == 6

(* ------------------------------ inputs --------------------------------- *)

\* file tokens; "" is the default value that stands for standard input
Names == {"", "f"}

\* decodable lines: empty, non-empty, and non-empty made of white space
LineSet == {"", "a", " "}

\* a line whose bytes are not valid UTF-8 (read_line returns Err for it)
Undecodable == "<invalid-utf8>"

\* the io::Error File::open returns for a path it cannot open
OpenError == "No such file or directory (os error 2)"

\* an Option: <<>> is None, <<v>> is Some(v)
None == <<>>

Some(v) == <<v>>

RECURSIVE SeqsUpTo(_, _)
SeqsUpTo(S, n) ==
    IF n = 0 THEN {<<>>}
    ELSE LET shorter == SeqsUpTo(S, n - 1)
         IN  shorter \cup {Append(s, e) : s \in {t \in shorter : Len(t) = n - 1}, e \in S}

(* --------------------------- pure functions ---------------------------- *)

Digit(d) ==
    CASE d = 0 -> "0" [] d = 1 -> "1" [] d = 2 -> "2" [] d = 3 -> "3"
      [] d = 4 -> "4" [] d = 5 -> "5" [] d = 6 -> "6" [] d = 7 -> "7"
      [] d = 8 -> "8" [] d = 9 -> "9"

\* "{}" applied to a usize
RECURSIVE Decimal(_)
Decimal(n) == IF n < 10 THEN Digit(n) ELSE Decimal(n \div 10) \o Digit(n % 10)

\* println!("{}\t{}", n, line), without the newline println! adds
Prefixed(n, line) == Decimal(n) \o "\t" \o line

\* faulty variant: the enumerate index printed as it is (0-based)
NumberAllZeroBased(num) == num

\* the line number printed with -n for the line enumerate numbers `num`
NumberAll(num) == num + 1

\* faulty variant: the empty lines seen so far are not taken off
NumberNonblankNoAdjust(num, blanks) == num + 1

\* the line number printed with -b
NumberNonblank(num, blanks) == num + 1 - blanks

\* faulty variant: only the lines that decode are counted (errors filtered out
\* before enumerate)
NumberAfterOkOnly(num, line) ==
    IF line = Undecodable THEN num ELSE (num + 1) % UsizeMod

\* the enumerate counter after one more item (usize)
NumberAfter(num, line) == (num + 1) % UsizeMod

\* faulty variant: blank_count declared outside the loop over the files
CarriedBlankCount == blank_count

\* let mut blank_count: usize = 0
FreshBlankCount == 0

\* line.is_empty()
is_empty(line) == Len(line) = 0

\* blank_count after the loop body has run on a decoded line
BlankCountAfter(cfg, blanks, line) ==
    IF ~cfg.count_lines /\ cfg.nonblank_number /\ is_empty(line)
    THEN blanks + 1
    ELSE blanks

\* faulty variant: without a flag an empty line is not printed
PrintedSkipsEmpty(cfg, num, blanks, line) ==
    IF line = Undecodable THEN <<>>
    ELSE IF cfg.count_lines THEN <<Prefixed(NumberAll(num), line)>>
    ELSE IF cfg.nonblank_number
         THEN IF is_empty(line) THEN <<line>>
              ELSE <<Prefixed(NumberNonblank(num, blanks), line)>>
    ELSE IF is_empty(line) THEN <<>>
    ELSE <<line>>

\* what the loop body prints for one item of file.lines().enumerate()
Printed(cfg, num, blanks, line) ==
    IF line = Undecodable THEN <<>>
    ELSE IF cfg.count_lines THEN <<Prefixed(NumberAll(num), line)>>
    ELSE IF cfg.nonblank_number
         THEN IF is_empty(line) THEN <<line>>
              ELSE <<Prefixed(NumberNonblank(num, blanks), line)>>
    ELSE <<line>>

\* faulty variant: "" is handed to File::open like any other name
open_file_no_stdin(file, fs) ==
    IF fs = "Ok" THEN [ok |-> TRUE, from |-> "file"]
    ELSE [ok |-> FALSE, from |-> "file"]

\* open_file: "" is standard input, anything else goes to File::open, whose
\* answer is `fs`
open_file(file, fs) ==
    IF file = "" THEN [ok |-> TRUE, from |-> "stdin"]
    ELSE IF fs = "Ok" THEN [ok |-> TRUE, from |-> "file"]
    ELSE [ok |-> FALSE, from |-> "file"]

\* the files of the Config: clap's default_value("") when no token is given
FilesOf(tokens) == IF tokens = <<>> THEN <<"">> ELSE tokens

\* the exit status of clap's Error::exit for a usage error
ClapUsageCode == 2

\* faulty variant: an open failure is propagated (open_file(&filename)?)
RunResultErrOnOpenFailure == IF stderr # <<>> THEN "Err" ELSE "Ok"

\* the value run returns
RunResult == "Ok"

\* main: exit(1) on Err, falling off the end (status 0) on Ok
MainStatus(res) == IF res = "Ok" THEN 0 ELSE 1

\* what clap prints for the conflict
UsageMessage == "error: the argument '-n' cannot be used with '-b'"

\* faulty variant: the message does not name the file
OpenMessageNoName(filename, e) == "Failed to open file due to " \o e

\* eprintln!("Failed to open {} due to {}", filename, e)
OpenMessage(filename, e) == "Failed to open " \o filename \o " due to " \o e

(* ------------------------------- state --------------------------------- *)

\* the Config run was given
Cfg == config[1]

TotalRead == LET RECURSIVE Sum(_)
                 Sum(i) == IF i = 0 THEN 0 ELSE Len(input[i].lines) + Sum(i - 1)
             IN  Sum(Len(input))

Init ==
    /\ args \in [files : SeqsUpTo(Names, MaxFiles), n : BOOLEAN, b : BOOLEAN]
    /\ pc = "start"
    /\ config = None
    /\ idx = 0
    /\ reader = "closed"
    /\ number = 0
    /\ blank_count = 0
    /\ stdout = <<>>
    /\ stderr = <<>>
    /\ input = <<>>
    /\ result = "pending"
    /\ exitCode = None

(* ------------------------------ actions -------------------------------- *)

\* get_args: get_matches() finds -n and -b in conflict, prints the usage
\* error and exits the process itself; get_args never returns
GetArgsConflict ==
    /\ pc = "start"
    /\ args.n /\ args.b
    /\ stderr' = Append(stderr, UsageMessage)
    /\ exitCode' = Some(ClapUsageCode)
    /\ pc' = "exited"
    /\ UNCHANGED <<args, config, idx, reader, number, blank_count, stdout,
                   input, result>>

\* get_args returns Ok(Config) and main hands it to run
GetArgsOk ==
    /\ pc = "start"
    /\ ~(args.n /\ args.b)
    /\ config' = Some([files |-> FilesOf(args.files),
                       count_lines |-> args.n,
                       nonblank_number |-> args.b])
    /\ idx' = 1
    /\ pc' = "files"
    /\ UNCHANGED <<args, reader, number, blank_count, stdout, stderr, input,
                   result, exitCode>>

\* for filename in config.files: open_file(&filename)
Open ==
    /\ pc = "files"
    /\ idx <= Len(Cfg.files)
    /\ \E fs \in {"Ok", "Err"}, kind \in {"text", "unreadable"} :
         LET filename == Cfg.files[idx]
             r == open_file(filename, fs)
         IN  IF r.ok
             THEN /\ reader' = kind
                  /\ blank_count' = FreshBlankCount
                  /\ number' = 0
                  /\ pc' = "lines"
                  /\ input' = Append(input, [name |-> filename, opened |-> TRUE,
                                             from |-> r.from, kind |-> kind,
                                             mark |-> Len(stdout), lines |-> <<>>])
                  /\ UNCHANGED <<idx, stderr>>
             ELSE /\ stderr' = Append(stderr, OpenMessage(filename, OpenError))
                  /\ idx' = idx + 1
                  /\ input' = Append(input, [name |-> filename, opened |-> FALSE,
                                             from |-> r.from, kind |-> "missing",
                                             mark |-> Len(stdout), lines |-> <<>>])
                  /\ UNCHANGED <<reader, blank_count, number, pc>>
    /\ UNCHANGED <<args, config, stdout, result, exitCode>>

\* one turn of for (number, line) in file.lines().enumerate(): the reader
\* yields a line (decodable or not) and the body runs on it
ReadLine ==
    /\ pc = "lines"
    /\ reader = "text"
    /\ TotalRead < MaxInput
    /\ \E line \in LineSet \cup {Undecodable} :
         /\ stdout' = stdout \o Printed(Cfg, number, blank_count, line)
         /\ blank_count' = IF line = Undecodable THEN blank_count
                           ELSE BlankCountAfter(Cfg, blank_count, line)
         /\ number' = NumberAfter(number, line)
         /\ input' = [input EXCEPT ![idx].lines = Append(@, line)]
    /\ UNCHANGED <<args, pc, config, idx, reader, stderr, result, exitCode>>

\* one turn of the loop on a reader whose read fails without consuming:
\* lines() yields Some(Err(_)), the body does nothing, enumerate counts on
ReadFails ==
    /\ pc = "lines"
    /\ reader = "unreadable"
    /\ number' = NumberAfter(number, Undecodable)
    /\ UNCHANGED <<args, pc, config, idx, reader, blank_count, stdout, stderr,
                   input, result, exitCode>>

\* lines() yields None at end of input: the reader is dropped and the outer
\* loop takes the next filename
EndOfInput ==
    /\ pc = "lines"
    /\ reader = "text"
    /\ reader' = "closed"
    /\ idx' = idx + 1
    /\ pc' = "files"
    /\ UNCHANGED <<args, config, number, blank_count, stdout, stderr, input,
                   result, exitCode>>

\* the outer loop is over: run returns
RunReturns ==
    /\ pc = "files"
    /\ idx > Len(Cfg.files)
    /\ result' = RunResult
    /\ pc' = "returned"
    /\ UNCHANGED <<args, config, idx, reader, number, blank_count, stdout,
                   stderr, input, exitCode>>

\* main after get_args().and_then(run)
MainExits ==
    /\ pc = "returned"
    /\ exitCode' = Some(MainStatus(result))
    /\ stderr' = IF result = "Ok" THEN stderr ELSE Append(stderr, result)
    /\ pc' = "exited"
    /\ UNCHANGED <<args, config, idx, reader, number, blank_count, stdout,
                   input, result>>

Next ==
    \/ GetArgsConflict
    \/ GetArgsOk
    \/ Open
    \/ ReadLine
    \/ ReadFails
    \/ EndOfInput
    \/ RunReturns
    \/ MainExits

Spec == Init /\ [][Next]_vars

\* the program is sequential and runs until it exits: a step that can be
\* taken is taken
FairSpec == Spec /\ WF_vars(Next)

(* ------------------- vocabulary of the properties ---------------------- *)

\* source i has been dealt with: its open failed, or it was read to its end
Completed(i) == i <= Len(input) /\ i < idx

\* what was written to standard output while source i was the current one
Seg(i) ==
    SubSeq(stdout, input[i].mark + 1,
           IF i < Len(input) THEN input[i + 1].mark ELSE Len(stdout))

Decodable(line) == line # Undecodable

AllDecodable(L) == \A k \in 1..Len(L) : Decodable(L[k])

OnlyNumberAll == config # None /\ Cfg.count_lines

OnlyNonblank == config # None /\ Cfg.nonblank_number /\ ~Cfg.count_lines

NoFlag == config # None /\ ~Cfg.count_lines /\ ~Cfg.nonblank_number

\* a number, a tab, the line
Numbered(k, line) == Decimal(k) \o "\t" \o line

\* the decodable empty lines among the first k of L
BlanksUpTo(L, k) == Cardinality({j \in 1..k : L[j] = ""})

\* L with the non-empty lines numbered 1, 2, 3, ... from `next` on and the
\* empty lines left as they are
RECURSIVE ConsecutiveNonblank(_, _)
ConsecutiveNonblank(L, next) ==
    IF L = <<>> THEN <<>>
    ELSE IF Head(L) = "" THEN <<"">> \o ConsecutiveNonblank(Tail(L), next)
    ELSE <<Numbered(next, Head(L))>> \o ConsecutiveNonblank(Tail(L), next + 1)

\* what a source with lines L gives when it is the only source, stated by
\* position: line k gives nothing when undecodable, else itself, with its
\* position in front under -n, with its position less the empty lines before
\* it in front under -b unless it is empty
ExpectedLine(cfg, L, k) ==
    IF ~Decodable(L[k]) THEN <<>>
    ELSE IF cfg.count_lines THEN <<Numbered(k, L[k])>>
    ELSE IF cfg.nonblank_number /\ L[k] # ""
         THEN <<Numbered(k - BlanksUpTo(L, k), L[k])>>
    ELSE <<L[k]>>

RECURSIVE ExpectedUpTo(_, _, _)
ExpectedUpTo(cfg, L, k) ==
    IF k = 0 THEN <<>> ELSE ExpectedUpTo(cfg, L, k - 1) \o ExpectedLine(cfg, L, k)

ExpectedOutput(cfg, L) == ExpectedUpTo(cfg, L, Len(L))

RECURSIVE ConcatOutputs(_)
ConcatOutputs(n) ==
    IF n = 0 THEN <<>>
    ELSE ConcatOutputs(n - 1) \o ExpectedOutput(Cfg, input[n].lines)

\* the messages of the sources that did not open, in the order of the sources
RECURSIVE OpenFailures(_)
OpenFailures(n) ==
    IF n = 0 THEN <<>>
    ELSE OpenFailures(n - 1) \o
         (IF input[n].opened THEN <<>>
          ELSE <<"Failed to open " \o input[n].name \o " due to " \o OpenError>>)

\* line `text` as printed under some flag: bare or behind a number and a tab
PrintedForms(text) == {text} \cup {Numbered(m, text) : m \in 1..(MaxInput + 1)}

Parsed == config # None

Finished == pc \in {"returned", "exited"}

(* ------------------------------ claims --------------------------------- *)

\* C1 as stated: under -n every source that opened and was read to its end,
\* with N lines, has given exactly N output lines, the k-th being k, a tab
\* and the k-th input line.
C1_EveryLineNumbered ==
    \A i \in 1..Len(input) :
        (OnlyNumberAll /\ Completed(i) /\ input[i].opened)
        => LET L == input[i].lines
           IN  /\ Len(Seg(i)) = Len(L)
               /\ \A k \in 1..Len(L) : Seg(i)[k] = Numbered(k, L[k])

\* C1 amended: the same, for the sources all of whose lines decode.
C1_EveryDecodableLineNumbered ==
    \A i \in 1..Len(input) :
        (OnlyNumberAll /\ Completed(i) /\ input[i].opened
            /\ AllDecodable(input[i].lines))
        => LET L == input[i].lines
           IN  /\ Len(Seg(i)) = Len(L)
               /\ \A k \in 1..Len(L) : Seg(i)[k] = Numbered(k, L[k])

C1_Witness ==
    \E i \in 1..Len(input) :
        /\ OnlyNumberAll /\ Completed(i) /\ input[i].opened
        /\ AllDecodable(input[i].lines)
        /\ Len(input[i].lines) >= 2
        /\ Len(Seg(i)) = Len(input[i].lines)

\* C2 as stated: under -b the empty lines are printed bare and the non-empty
\* lines that are printed carry 1, 2, 3, ... in order, whatever precedes them.
C2_NonblankConsecutive ==
    \A i \in 1..Len(input) :
        (OnlyNonblank /\ Completed(i) /\ input[i].opened)
        => Seg(i) = ConsecutiveNonblank(SelectSeq(input[i].lines, Decodable), 1)

\* C2 amended: the same, for the sources all of whose lines decode.
C2_NonblankConsecutiveWhenDecodable ==
    \A i \in 1..Len(input) :
        (OnlyNonblank /\ Completed(i) /\ input[i].opened
            /\ AllDecodable(input[i].lines))
        => Seg(i) = ConsecutiveNonblank(input[i].lines, 1)

C2_Witness ==
    \E i \in 1..Len(input) :
        /\ OnlyNonblank /\ Completed(i) /\ input[i].opened
        /\ AllDecodable(input[i].lines)
        /\ Len(input[i].lines) = 3
        /\ input[i].lines[1] # "" /\ input[i].lines[2] = "" /\ input[i].lines[3] # ""
        /\ Len(Seg(i)) = 3

\* C3 as stated: with neither flag the output of a source that opened and was
\* read to its end is its sequence of lines, nothing added, dropped, changed.
C3_Verbatim ==
    \A i \in 1..Len(input) :
        (NoFlag /\ Completed(i) /\ input[i].opened) => Seg(i) = input[i].lines

\* C3 amended: the same, for the sources all of whose lines decode.
C3_VerbatimWhenDecodable ==
    \A i \in 1..Len(input) :
        (NoFlag /\ Completed(i) /\ input[i].opened /\ AllDecodable(input[i].lines))
        => Seg(i) = input[i].lines

C3_Witness ==
    \E i \in 1..Len(input) :
        /\ NoFlag /\ Completed(i) /\ input[i].opened
        /\ AllDecodable(input[i].lines)
        /\ Len(input[i].lines) >= 2
        /\ \E k \in 1..Len(input[i].lines) : input[i].lines[k] = ""
        /\ Len(Seg(i)) = Len(input[i].lines)

\* the parts of C4 that do not depend on which lines count: one message per
\* source that did not open, naming it, nothing on standard output for it,
\* and the loop goes on to the sources after it
C4_FailureReported ==
    /\ Parsed => stderr = OpenFailures(Len(input))
    /\ \A i \in 1..Len(input) : ~input[i].opened => Seg(i) = <<>>
    /\ \A i \in 1..Len(input) : input[i].name = Cfg.files[i]
    /\ (Parsed /\ Finished) => Len(input) = Len(Cfg.files)

C5_ConflictExitsWithOne ==
    (args.n /\ args.b)
    => /\ config = None
       /\ input = <<>>
       /\ stdout = <<>>
       /\ pc = "exited" => exitCode = Some(1)

C7_DefaultIsStdin ==
    /\ (Parsed /\ args.files = <<>>) => Cfg.files = <<"">>
    /\ \A i \in 1..Len(input) :
         input[i].name = "" => (input[i].opened /\ input[i].from = "stdin")
    /\ (Parsed /\ args.files = <<>> /\ Completed(1) /\ input[1].lines = <<>>)
       => /\ Len(input) = 1 /\ stdout = <<>> /\ stderr = <<>>
          /\ pc = "exited" => exitCode = Some(0)

C7_Witness ==
    /\ Parsed /\ args.files = <<>> /\ pc = "exited"
    /\ Len(input) = 1 /\ input[1].from = "stdin" /\ input[1].lines = <<>>
    /\ stdout = <<>> /\ exitCode = Some(0)

\* C8: standard output is at every moment the concatenation, in argument
\* order, of what each source read so far gives when processed alone with the
\* same flags (its own line positions, its own count of empty lines).
C8_Concatenation ==
    /\ ~Parsed => stdout = <<>>
    /\ Parsed => /\ stdout = ConcatOutputs(Len(input))
                 /\ \A i \in 1..Len(input) :
                      /\ input[i].name = Cfg.files[i]
                      /\ Seg(i) = ExpectedOutput(Cfg, input[i].lines)

C8_Witness ==
    /\ OnlyNonblank /\ Finished
    /\ Len(input) = 2
    /\ input[1].opened /\ input[2].opened
    /\ \E k \in 1..Len(input[1].lines) : input[1].lines[k] = ""
    /\ \E k \in 1..Len(input[2].lines) : input[2].lines[k] = "a"
    /\ Seg(1) # <<>> /\ Seg(2) # <<>>

C10_Terminates == <>(pc = "exited")

=============================================================================
